---- MODULE Spec2Model ----
(***************************************************************************)
(* Model of the two data-seeding scripts of aura-backend:                  *)
(*   generate_enhanced_tickets.py  - generates 50 tickets                  *)
(*   populate_knowledge_base.py    - inserts the sample articles           *)
(* Times are integer minutes.  Free-text fields that no operation of the   *)
(* scripts reads back (description, user_*, department, ai_suggestions)    *)
(* are left out of the ticket document.                                    *)
(***************************************************************************)
EXTENDS Integers, Sequences, FiniteSets, TLC

(* ------------------------------ bounds --------------------------------- *)
\* existing ticket counts tried: 0..MaxExisting and 50-1..50+MaxExisting
MaxExisting == 1
\* rotation of the reordering random.shuffle outcome tried in whole runs
RotStep == 7
\* unrelated articles before a run: 0..MaxForeign and 12-1..12+MaxForeign
MaxForeign == 0
\* successive runs of the ticket script in SpecRuns
MaxRuns == 2
\* seeds of the random module tried: 0..MaxSeed
MaxSeed == 0
\* rotations 0..MaxRotation tried when only the lists are built
MaxRotation == 9
\* length of the mixed ticket streams of SpecAssign
MaxStream == 18
\* length of the one-category ticket streams of SpecSameCategory
MaxAssign == 26
\* duplicate articles two concurrent knowledge-base runs are followed to
MaxDuplicates == 1

(* --------------------------- configuration ----------------------------- *)
TOTAL_TICKETS == 50

STATUS_DISTRIBUTION ==
  << <<"Open", 18>>, <<"InProgress", 15>>, <<"Resolved", 12>>, <<"Closed", 5>> >>

PRIORITY_DISTRIBUTION ==
  << <<"Critical", 3>>, <<"High", 12>>, <<"Medium", 25>>, <<"Low", 10>> >>

CATEGORY_DISTRIBUTION ==
  << <<"Software", 15>>, <<"Hardware", 12>>, <<"Network", 10>>,
     <<"Email", 8>>, <<"Access", 3>>, <<"Other", 2>> >>

AGENTS ==
  << [name |-> "Sarah Wilson",   skills |-> {"Network", "Hardware", "Security"}],
     [name |-> "Mike Chen",      skills |-> {"Software", "Email", "Access"}],
     [name |-> "Emma Rodriguez", skills |-> {"Access", "Security", "Other"}],
     [name |-> "David Kim",      skills |-> {"Hardware", "Software", "Network"}],
     [name |-> "Lisa Anderson",  skills |-> {"Email", "Software", "Other"}],
     [name |-> "Alex Thompson",  skills |-> {"Network", "Security", "Hardware"}] >>

\* the category and priority of each predefined scenario, in list order
ENHANCED_TICKET_SCENARIOS ==
  << [category |-> "Email", priority |-> "Critical"],
     [category |-> "Network", priority |-> "Critical"],
     [category |-> "Other", priority |-> "Critical"],
     [category |-> "Hardware", priority |-> "High"],
     [category |-> "Software", priority |-> "High"],
     [category |-> "Network", priority |-> "High"],
     [category |-> "Software", priority |-> "High"],
     [category |-> "Hardware", priority |-> "High"],
     [category |-> "Email", priority |-> "High"],
     [category |-> "Other", priority |-> "High"],
     [category |-> "Other", priority |-> "High"],
     [category |-> "Access", priority |-> "High"],
     [category |-> "Hardware", priority |-> "Medium"],
     [category |-> "Software", priority |-> "Medium"],
     [category |-> "Network", priority |-> "Medium"],
     [category |-> "Email", priority |-> "Medium"],
     [category |-> "Access", priority |-> "Medium"],
     [category |-> "Hardware", priority |-> "Medium"],
     [category |-> "Software", priority |-> "Medium"],
     [category |-> "Network", priority |-> "Medium"],
     [category |-> "Email", priority |-> "Medium"],
     [category |-> "Access", priority |-> "Medium"],
     [category |-> "Software", priority |-> "Medium"],
     [category |-> "Hardware", priority |-> "Medium"],
     [category |-> "Software", priority |-> "Medium"],
     [category |-> "Network", priority |-> "Medium"],
     [category |-> "Email", priority |-> "Medium"],
     [category |-> "Access", priority |-> "Medium"],
     [category |-> "Hardware", priority |-> "Medium"],
     [category |-> "Software", priority |-> "Medium"],
     [category |-> "Network", priority |-> "Medium"],
     [category |-> "Email", priority |-> "Medium"],
     [category |-> "Access", priority |-> "Medium"],
     [category |-> "Hardware", priority |-> "Medium"],
     [category |-> "Software", priority |-> "Medium"],
     [category |-> "Network", priority |-> "Medium"],
     [category |-> "Email", priority |-> "Medium"],
     [category |-> "Software", priority |-> "Low"],
     [category |-> "Hardware", priority |-> "Low"],
     [category |-> "Software", priority |-> "Low"],
     [category |-> "Hardware", priority |-> "Low"],
     [category |-> "Network", priority |-> "Low"],
     [category |-> "Email", priority |-> "Low"],
     [category |-> "Access", priority |-> "Low"],
     [category |-> "Hardware", priority |-> "Low"],
     [category |-> "Software", priority |-> "Low"],
     [category |-> "Hardware", priority |-> "Low"] >>


\* the create guard compares against the literal 50
GUARD_THRESHOLD == 50
\* an agent at this workload is no longer picked by skill
SATURATION == 8

Statuses == {"Open", "InProgress", "Resolved", "Closed"}
Priorities == {"Critical", "High", "Medium", "Low"}
Categories == {"Software", "Hardware", "Network", "Email", "Access", "Other"}

(* ------------------------- distribution lists -------------------------- *)
\* [label] * count for every item of the mapping, in insertion order
RECURSIVE Expand(_)
Expand(dist) ==
  IF dist = <<>> THEN <<>>
  ELSE [j \in 1..dist[1][2] |-> dist[1][1]] \o Expand(Tail(dist))

\* number of occurrences of x in list
Count(list, x) == Cardinality({j \in DOMAIN list : list[j] = x})

\* the outcomes of random.shuffle that are explored: the list read from
\* position rot onward in steps of stride (stride coprime to the length)
Strides == {3}
ShuffleChoices == {<<0, 1>>} \cup {<<RotStep, s>> : s \in Strides}

\* variant: the last position is never read, the first is read twice
Shuffle_lossy(list, c) ==
  [j \in 1..Len(list) |-> list[((c[1] + c[2] * (j - 1)) % (Len(list) - 1)) + 1]]

Shuffle(list, c) ==
  [j \in 1..Len(list) |-> list[((c[1] + c[2] * (j - 1)) % Len(list)) + 1]]

(* --------------------------- random draws ------------------------------ *)
\* the slot-th draw made for ticket i by a generator seeded with seed
Rand(sd, i, slot, lo, hi) ==
  lo + (((sd + 1) * (7 * i + 3 * slot + 1) + slot) % (hi - lo + 1))

DaysAgoRange_sameday(status) ==
  CASE status = "Closed"     -> <<7, 60>>
    [] status = "Resolved"   -> <<0, 14>>
    [] status = "InProgress" -> <<0, 7>>
    [] OTHER                 -> <<0, 3>>

DaysAgoRange(status) ==
  CASE status = "Closed"     -> <<7, 60>>
    [] status = "Resolved"   -> <<1, 14>>
    [] status = "InProgress" -> <<0, 7>>
    [] OTHER                 -> <<0, 3>>

\* variant: the Medium branch is missing, Medium falls through to Low
ResolutionRange_nomedium(priority) ==
  CASE priority = "Critical" -> <<30, 240>>
    [] priority = "High"     -> <<120, 1440>>
    [] OTHER                 -> <<1440, 10080>>

\* variant: Critical tickets may be resolved in no time
ResolutionRange_zero(priority) ==
  CASE priority = "Critical" -> <<0, 240>>
    [] priority = "High"     -> <<120, 1440>>
    [] priority = "Medium"   -> <<240, 4320>>
    [] OTHER                 -> <<1440, 10080>>

\* random.uniform bounds of resolution_hours, in minutes
ResolutionRange(priority) ==
  CASE priority = "Critical" -> <<30, 240>>
    [] priority = "High"     -> <<120, 1440>>
    [] priority = "Medium"   -> <<240, 4320>>
    [] OTHER                 -> <<1440, 10080>>

\* list(range(0, 8)) + list(range(19, 24))
OffHours == <<0, 1, 2, 3, 4, 5, 6, 7, 19, 20, 21, 22, 23>>

\* all draws of one loop iteration, from the seeded generator
Draws(sd, i, status, priority) ==
  LET business == Rand(sd, i, 2, 0, 9) < 8 IN
  [ base       |-> Rand(sd, i, 0, 1, 5),
    days_ago   |-> Rand(sd, i, 1, DaysAgoRange(status)[1], DaysAgoRange(status)[2]),
    hour       |-> IF business THEN Rand(sd, i, 3, 8, 18)
                   ELSE OffHours[Rand(sd, i, 3, 1, Len(OffHours))],
    hours      |-> Rand(sd, i, 4, 0, 23),
    minutes    |-> Rand(sd, i, 5, 0, 59),
    resolution |-> Rand(sd, i, 6, 1, 10),
    resolution_minutes |->
      Rand(sd, i, 7, ResolutionRange(priority)[1], ResolutionRange(priority)[2]) ]

(* ---------------------------- loop body -------------------------------- *)
\* variant: the template title carries the 0-based index
TitleAt_zerobased(i, base) ==
  IF i < Len(ENHANCED_TICKET_SCENARIOS)
  THEN [kind |-> "scenario", text |-> i + 1, number |-> 0]
  ELSE [kind |-> "template", text |-> base, number |-> i]

TitleAt(i, base) ==
  IF i < Len(ENHANCED_TICKET_SCENARIOS)
  THEN [kind |-> "scenario", text |-> i + 1, number |-> 0]
  ELSE [kind |-> "template", text |-> base, number |-> i + 1]

CategoryAt(i, clist) ==
  IF i < Len(ENHANCED_TICKET_SCENARIOS) THEN ENHANCED_TICKET_SCENARIOS[i + 1].category
  ELSE IF i < Len(clist) THEN clist[i + 1] ELSE "Other"

PriorityAt(i, plist) ==
  IF i < Len(ENHANCED_TICKET_SCENARIOS) THEN ENHANCED_TICKET_SCENARIOS[i + 1].priority
  ELSE IF i < Len(plist) THEN plist[i + 1] ELSE "Medium"

\* variant: the status is taken from the list only for scenario tickets
StatusAt_scenario(i, slist) ==
  IF i < Len(ENHANCED_TICKET_SCENARIOS) THEN slist[i + 1] ELSE "Open"

StatusAt(i, slist) == IF i < Len(slist) THEN slist[i + 1] ELSE "Open"

HourOf(t) == (t \div 60) % 24

\* datetime.replace(hour=h)
ReplaceHour(t, h) == t - 60 * HourOf(t) + 60 * h

CreatedTime(t, d) ==
  ReplaceHour(t - 1440 * d.days_ago - 60 * d.hours - d.minutes, d.hour)

\* variant: an agent at the threshold still counts as free
RECURSIVE FirstSkilled_inclusive(_, _, _)
FirstSkilled_inclusive(a, category, wl) ==
  IF a > Len(AGENTS) THEN 0
  ELSE IF category \in AGENTS[a].skills /\ wl[a] <= SATURATION THEN a
  ELSE FirstSkilled_inclusive(a + 1, category, wl)

\* variant: the skill or the room suffices
RECURSIVE FirstSkilled_anyroom(_, _, _)
FirstSkilled_anyroom(a, category, wl) ==
  IF a > Len(AGENTS) THEN 0
  ELSE IF category \in AGENTS[a].skills \/ wl[a] < SATURATION THEN a
  ELSE FirstSkilled_anyroom(a + 1, category, wl)

\* variant: the loop stops at the first agent with the skill, saturated or not
RECURSIVE FirstSkilled_stop(_, _, _)
FirstSkilled_stop(a, category, wl) ==
  IF a > Len(AGENTS) THEN 0
  ELSE IF category \in AGENTS[a].skills
       THEN (IF wl[a] < SATURATION THEN a ELSE 0)
       ELSE FirstSkilled_stop(a + 1, category, wl)

\* the for loop over AGENTS: first agent with the skill and room, 0 for None
RECURSIVE FirstSkilled(_, _, _)
FirstSkilled(a, category, wl) ==
  IF a > Len(AGENTS) THEN 0
  ELSE IF category \in AGENTS[a].skills /\ wl[a] < SATURATION THEN a
  ELSE FirstSkilled(a + 1, category, wl)

\* variant: the last agent of minimal workload
RECURSIVE MinWorkload_last(_, _, _)
MinWorkload_last(a, best, wl) ==
  IF a > Len(AGENTS) THEN best
  ELSE MinWorkload_last(a + 1, IF wl[a] <= wl[best] THEN a ELSE best, wl)

\* min(AGENTS, key=workload): the first agent of minimal workload
RECURSIVE MinWorkload(_, _, _)
MinWorkload(a, best, wl) ==
  IF a > Len(AGENTS) THEN best
  ELSE MinWorkload(a + 1, IF wl[a] < wl[best] THEN a ELSE best, wl)

BestAgent(category, wl) ==
  LET m == FirstSkilled(1, category, wl) IN
  IF m # 0 THEN m ELSE MinWorkload(2, 1, wl)

\* variant: the agent is assigned inside the Resolved/Closed branch
TicketDoc_late(title, status, category, priority, t, d, wl) ==
  LET created_time == CreatedTime(t, d)
      doc == [ title |-> title, category |-> category, priority |-> priority,
               status |-> status,
               created_at |-> created_time, updated_at |-> created_time ]
  IN IF status \in {"Resolved", "Closed"}
     THEN [ assigned_to |-> AGENTS[BestAgent(category, wl)].name,
            resolution |-> d.resolution,
            updated_at |-> created_time + d.resolution_minutes ] @@ doc
     ELSE doc

\* the ticket document handed to create
TicketDoc(title, status, category, priority, t, d, wl) ==
  LET created_time == CreatedTime(t, d)
      doc == [ title |-> title, category |-> category, priority |-> priority,
               status |-> status,
               created_at |-> created_time, updated_at |-> created_time ]
      assigned == IF status # "Open"
                  THEN [assigned_to |-> AGENTS[BestAgent(category, wl)].name] @@ doc
                  ELSE doc
  IN IF status \in {"Resolved", "Closed"}
     THEN [ resolution |-> d.resolution,
            updated_at |-> created_time + d.resolution_minutes ] @@ assigned
     ELSE assigned

\* best_agent["workload"] += 1
Assigned_always(status, category, wl) ==
  [wl EXCEPT ![BestAgent(category, wl)] = @ + 1]

Assigned(status, category, wl) ==
  IF status # "Open"
  THEN [wl EXCEPT ![BestAgent(category, wl)] = @ + 1]
  ELSE wl

(* ------------------------------- state --------------------------------- *)
VARIABLES
  pc,              \* position of the run
  tickets,         \* documents of the "tickets" collection, in insertion order
  initial_count,   \* size of the collection when the run started
  existing_count,  \* result of check_existing_tickets_count
  status_list, priority_list, category_list,
  i,               \* loop index
  tickets_created,
  workload,        \* AGENTS[a]["workload"]
  ticket_doc,      \* the document of the latest loop iteration
  create_calls,    \* create calls issued on the tickets repository
  close_calls,     \* close_connections calls issued
  outcome,         \* how generate_enhanced_tickets left its try block
  now,             \* datetime.utcnow(), minutes
  seed,            \* state of the random module
  errors,          \* operations of the run that raised
  run,             \* number of the process run against the same store
  exit_code,       \* return value of main, -1 while it runs
  knowledge_base,  \* titles of the "knowledge_base" collection, in insertion order
  find_calls,      \* find_one calls issued on the knowledge_base repository
  init_calls,      \* init_database_connections calls issued
  repo_calls       \* repository operations issued (count, find_one, create, find_many)

vars == << pc, tickets, initial_count, existing_count, status_list, priority_list,
           category_list, i, tickets_created, workload, ticket_doc, create_calls,
           close_calls, outcome, now, seed, errors, run, exit_code, knowledge_base,
           find_calls, init_calls, repo_calls >>

ExistingCounts ==
  (0..MaxExisting) \cup ((GUARD_THRESHOLD - 1)..(GUARD_THRESHOLD + MaxExisting))

\* a document stored before the run
ExistingDoc(n) ==
  [ title |-> [kind |-> "existing", text |-> n, number |-> 0],
    category |-> "Other", priority |-> "Medium", status |-> "Open",
    created_at |-> 0, updated_at |-> 0 ]

NoDoc == [title |-> [kind |-> "none", text |-> 0, number |-> 0]]
NoOutcome == [kind |-> "none", value |-> 0, error |-> "none"]

\* utcnow of the run: day 100, 10:30
NowValues == {144630}

ZeroWorkload == [a \in DOMAIN AGENTS |-> 0]

Init ==
  /\ pc = "main"
  /\ initial_count \in ExistingCounts
  /\ tickets = [n \in 1..initial_count |-> ExistingDoc(n)]
  /\ existing_count = 0
  /\ status_list = <<>> /\ priority_list = <<>> /\ category_list = <<>>
  /\ i = 0
  /\ tickets_created = 0
  /\ workload = ZeroWorkload
  /\ ticket_doc = NoDoc
  /\ create_calls = 0
  /\ close_calls = 0
  /\ outcome = NoOutcome
  /\ now \in NowValues
  /\ seed \in 0..MaxSeed
  /\ errors = {}
  /\ run = 1
  /\ exit_code = -1
  /\ knowledge_base = <<>>
  /\ find_calls = 0
  /\ init_calls = 0
  /\ repo_calls = 0

(* ------------------- generate_enhanced_tickets ------------------------- *)
\* check_existing_tickets_count returns the count
CheckExisting ==
  /\ pc = "check"
  /\ existing_count' = Len(tickets)
  /\ pc' = "guard"
  /\ UNCHANGED << tickets, initial_count, status_list, priority_list, category_list,
                  i, tickets_created, workload, ticket_doc, create_calls,
                  close_calls, outcome, now, seed, errors,
                  run, exit_code, knowledge_base, find_calls >>
  /\ init_calls' = init_calls + 1
  /\ repo_calls' = repo_calls + 1

\* init_database_connections or count raises inside it: swallowed, 0 returned
CheckExistingError_reported ==
  /\ pc = "check"
  /\ existing_count' = Len(tickets)
  /\ pc' = "guard"
  /\ \E op \in {"check_init", "check_count"} :
       /\ errors' = errors \cup {"check", op}
       /\ init_calls' = init_calls + 1
       /\ repo_calls' = IF op = "check_count" THEN repo_calls + 1 ELSE repo_calls
  /\ UNCHANGED << tickets, initial_count, status_list, priority_list, category_list,
                  i, tickets_created, workload, ticket_doc, create_calls,
                  close_calls, outcome, now, seed,
                  run, exit_code, knowledge_base, find_calls >>

CheckExistingError ==
  /\ pc = "check"
  /\ existing_count' = 0
  /\ pc' = "guard"
  /\ \E op \in {"check_init", "check_count"} :
       /\ errors' = errors \cup {"check", op}
       /\ init_calls' = init_calls + 1
       /\ repo_calls' = IF op = "check_count" THEN repo_calls + 1 ELSE repo_calls
  /\ UNCHANGED << tickets, initial_count, status_list, priority_list, category_list,
                  i, tickets_created, workload, ticket_doc, create_calls,
                  close_calls, outcome, now, seed,
                  run, exit_code, knowledge_base, find_calls >>

\* variant: the early return leaves without the finally block
GuardSkip_noclose ==
  /\ pc = "guard"
  /\ existing_count >= GUARD_THRESHOLD
  /\ outcome' = [kind |-> "return", value |-> existing_count, error |-> "none"]
  /\ pc' = "done"
  /\ UNCHANGED << tickets, initial_count, existing_count, status_list, priority_list,
                  category_list, i, tickets_created, workload, ticket_doc,
                  create_calls, close_calls, now, seed, errors,
                  run, exit_code, knowledge_base, find_calls >>
  /\ UNCHANGED << init_calls, repo_calls >>

\* if existing_count >= 50: return existing_count
GuardSkip ==
  /\ pc = "guard"
  /\ existing_count >= GUARD_THRESHOLD
  /\ outcome' = [kind |-> "return", value |-> existing_count, error |-> "none"]
  /\ pc' = "finally"
  /\ UNCHANGED << tickets, initial_count, existing_count, status_list, priority_list,
                  category_list, i, tickets_created, workload, ticket_doc,
                  create_calls, close_calls, now, seed, errors,
                  run, exit_code, knowledge_base, find_calls >>
  /\ UNCHANGED << init_calls, repo_calls >>

\* variant: generation is skipped only above the threshold
InitConnections_inclusive ==
  /\ pc = "guard"
  /\ existing_count <= GUARD_THRESHOLD
  /\ pc' = "build"
  /\ UNCHANGED << tickets, initial_count, existing_count, status_list, priority_list,
                  category_list, i, tickets_created, workload, ticket_doc,
                  create_calls, close_calls, outcome, now, seed, errors,
                  run, exit_code, knowledge_base, find_calls >>
  /\ init_calls' = init_calls + 1
  /\ repo_calls' = repo_calls + 0

\* the second init_database_connections succeeds
InitConnections ==
  /\ pc = "guard"
  /\ existing_count < GUARD_THRESHOLD
  /\ pc' = "build"
  /\ UNCHANGED << tickets, initial_count, existing_count, status_list, priority_list,
                  category_list, i, tickets_created, workload, ticket_doc,
                  create_calls, close_calls, outcome, now, seed, errors,
                  run, exit_code, knowledge_base, find_calls >>
  /\ init_calls' = init_calls + 1
  /\ repo_calls' = repo_calls + 0

\* the second init_database_connections raises
InitConnectionsError ==
  /\ pc = "guard"
  /\ existing_count < GUARD_THRESHOLD
  /\ outcome' = [kind |-> "raise", value |-> 0, error |-> "init"]
  /\ pc' = "finally"
  /\ errors' = errors \cup {"init"}
  /\ UNCHANGED << tickets, initial_count, existing_count, status_list, priority_list,
                  category_list, i, tickets_created, workload, ticket_doc,
                  create_calls, close_calls, now, seed,
                  run, exit_code, knowledge_base, find_calls >>
  /\ init_calls' = init_calls + 1
  /\ repo_calls' = repo_calls + 0

\* lines 471-489 with the shuffles taking their outcomes from choices
BuildWith(choices) ==
  /\ pc = "build"
  /\ \E cs \in choices, cp \in choices, cc \in choices :
       /\ status_list' = Shuffle(Expand(STATUS_DISTRIBUTION), cs)
       /\ priority_list' = Shuffle(Expand(PRIORITY_DISTRIBUTION), cp)
       /\ category_list' = Shuffle(Expand(CATEGORY_DISTRIBUTION), cc)
  /\ tickets_created' = 0
  /\ i' = 0
  /\ pc' = "loop"
  /\ UNCHANGED << tickets, initial_count, existing_count, workload, ticket_doc,
                  create_calls, close_calls, outcome, now, seed, errors,
                  run, exit_code, knowledge_base, find_calls >>
  /\ UNCHANGED << init_calls, repo_calls >>

\* the distribution lists are built and shuffled
BuildLists == BuildWith(ShuffleChoices)

\* variant: only the missing tickets are generated
InRange_remaining(n) == n < TOTAL_TICKETS - existing_count

\* for i in range(TOTAL_TICKETS)
InRange(n) == n < TOTAL_TICKETS

\* the document of loop iteration i
LoopDoc ==
  LET status == StatusAt(i, status_list)
      category == CategoryAt(i, category_list)
      priority == PriorityAt(i, priority_list)
      d == Draws(seed, i, status, priority)
  IN TicketDoc(TitleAt(i, d.base), status, category, priority, now, d, workload)

\* one loop iteration whose create returns
CreateTicket ==
  /\ pc = "loop"
  /\ InRange(i)
  /\ ticket_doc' = LoopDoc
  /\ workload' = Assigned(StatusAt(i, status_list), CategoryAt(i, category_list), workload)
  /\ create_calls' = create_calls + 1
  /\ tickets' = Append(tickets, LoopDoc)
  /\ tickets_created' = tickets_created + 1
  /\ i' = i + 1
  /\ UNCHANGED << pc, initial_count, existing_count, status_list, priority_list,
                  category_list, close_calls, outcome, now, seed, errors,
                  run, exit_code, knowledge_base, find_calls >>
  /\ init_calls' = init_calls + 0
  /\ repo_calls' = repo_calls + 1

\* variant: a failed create is caught per record and the loop goes on
CreateTicketError_continue ==
  /\ pc = "loop"
  /\ InRange(i)
  /\ ticket_doc' = LoopDoc
  /\ workload' = Assigned(StatusAt(i, status_list), CategoryAt(i, category_list), workload)
  /\ create_calls' = create_calls + 1
  /\ errors' = errors \cup {"create"}
  /\ i' = i + 1
  /\ UNCHANGED << pc, outcome, tickets, initial_count, existing_count, status_list,
                  priority_list, category_list, tickets_created, close_calls, now, seed,
                  run, exit_code, knowledge_base, find_calls >>
  /\ init_calls' = init_calls + 0
  /\ repo_calls' = repo_calls + 1

\* one loop iteration whose create raises
CreateTicketError ==
  /\ pc = "loop"
  /\ InRange(i)
  /\ ticket_doc' = LoopDoc
  /\ workload' = Assigned(StatusAt(i, status_list), CategoryAt(i, category_list), workload)
  /\ create_calls' = create_calls + 1
  /\ outcome' = [kind |-> "raise", value |-> 0, error |-> "create"]
  /\ pc' = "finally"
  /\ errors' = errors \cup {"create"}
  /\ UNCHANGED << tickets, initial_count, existing_count, status_list, priority_list,
                  category_list, i, tickets_created, close_calls, now, seed,
                  run, exit_code, knowledge_base, find_calls >>
  /\ init_calls' = init_calls + 0
  /\ repo_calls' = repo_calls + 1

\* the loop is exhausted: return tickets_created
ReturnCreated ==
  /\ pc = "loop"
  /\ ~InRange(i)
  /\ outcome' = [kind |-> "return", value |-> tickets_created, error |-> "none"]
  /\ pc' = "finally"
  /\ UNCHANGED << tickets, initial_count, existing_count, status_list, priority_list,
                  category_list, i, tickets_created, workload, ticket_doc,
                  create_calls, close_calls, now, seed, errors,
                  run, exit_code, knowledge_base, find_calls >>
  /\ UNCHANGED << init_calls, repo_calls >>

\* finally: close_connections returns
CloseConnections ==
  /\ pc = "finally"
  /\ close_calls' = close_calls + 1
  /\ pc' = "done"
  /\ UNCHANGED << tickets, initial_count, existing_count, status_list, priority_list,
                  category_list, i, tickets_created, workload, ticket_doc,
                  create_calls, outcome, now, seed, errors,
                  run, exit_code, knowledge_base, find_calls >>
  /\ UNCHANGED << init_calls, repo_calls >>

\* variant: the finally block has no try/except of its own
CloseConnectionsError_propagates ==
  /\ pc = "finally"
  /\ close_calls' = close_calls + 1
  /\ pc' = "done"
  /\ errors' = errors \cup {"close"}
  /\ outcome' = [kind |-> "raise", value |-> 0, error |-> "close"]
  /\ UNCHANGED << tickets, initial_count, existing_count, status_list, priority_list,
                  category_list, i, tickets_created, workload, ticket_doc,
                  create_calls, now, seed,
                  run, exit_code, knowledge_base, find_calls >>
  /\ UNCHANGED << init_calls, repo_calls >>

\* finally: close_connections raises, the error is printed and dropped
CloseConnectionsError ==
  /\ pc = "finally"
  /\ close_calls' = close_calls + 1
  /\ pc' = "done"
  /\ errors' = errors \cup {"close"}
  /\ UNCHANGED << tickets, initial_count, existing_count, status_list, priority_list,
                  category_list, i, tickets_created, workload, ticket_doc,
                  create_calls, outcome, now, seed,
                  run, exit_code, knowledge_base, find_calls >>
  /\ UNCHANGED << init_calls, repo_calls >>

\* a process-level interrupt while check_existing_tickets_count awaits init or
\* count: it is no Exception, so it passes both except clauses
InterruptCheck ==
  /\ pc = "check"
  /\ \E op \in {"init", "count"} :
       /\ init_calls' = init_calls + 1
       /\ repo_calls' = IF op = "count" THEN repo_calls + 1 ELSE repo_calls
  /\ outcome' = [kind |-> "raise", value |-> 0, error |-> "interrupt"]
  /\ errors' = errors \cup {"interrupt"}
  /\ pc' = "finally"
  /\ UNCHANGED << tickets, initial_count, existing_count, status_list, priority_list,
                  category_list, i, tickets_created, workload, ticket_doc,
                  create_calls, close_calls, now, seed,
                  run, exit_code, knowledge_base, find_calls >>

\* a process-level interrupt while the second init_database_connections is awaited
InterruptInit ==
  /\ pc = "guard"
  /\ existing_count < GUARD_THRESHOLD
  /\ init_calls' = init_calls + 1
  /\ outcome' = [kind |-> "raise", value |-> 0, error |-> "interrupt"]
  /\ errors' = errors \cup {"interrupt"}
  /\ pc' = "finally"
  /\ UNCHANGED << tickets, initial_count, existing_count, status_list, priority_list,
                  category_list, i, tickets_created, workload, ticket_doc,
                  create_calls, close_calls, now, seed,
                  run, exit_code, knowledge_base, find_calls, repo_calls >>

\* a process-level interrupt while create is awaited; the store may or may not
\* have taken the document
InterruptCreate ==
  /\ pc = "loop"
  /\ InRange(i)
  /\ ticket_doc' = LoopDoc
  /\ workload' = Assigned(StatusAt(i, status_list), CategoryAt(i, category_list), workload)
  /\ create_calls' = create_calls + 1
  /\ repo_calls' = repo_calls + 1
  /\ tickets' \in {tickets, Append(tickets, LoopDoc)}
  /\ outcome' = [kind |-> "raise", value |-> 0, error |-> "interrupt"]
  /\ errors' = errors \cup {"interrupt"}
  /\ pc' = "finally"
  /\ UNCHANGED << initial_count, existing_count, status_list, priority_list,
                  category_list, i, tickets_created, close_calls, now, seed,
                  run, exit_code, knowledge_base, find_calls, init_calls >>

\* a process-level interrupt while close_connections is awaited in the finally
\* block: it passes the except clause there and replaces the outcome
InterruptClose ==
  /\ pc = "finally"
  /\ close_calls' = close_calls + 1
  /\ outcome' = [kind |-> "raise", value |-> 0, error |-> "interrupt"]
  /\ errors' = errors \cup {"interrupt"}
  /\ pc' = "done"
  /\ UNCHANGED << tickets, initial_count, existing_count, status_list, priority_list,
                  category_list, i, tickets_created, workload, ticket_doc,
                  create_calls, now, seed,
                  run, exit_code, knowledge_base, find_calls, init_calls, repo_calls >>

(* -------------------------------- main --------------------------------- *)
\* the 'shared' directory exists: asyncio.run(generate_enhanced_tickets())
MainRun ==
  /\ pc = "main"
  /\ pc' = "check"
  /\ UNCHANGED << tickets, initial_count, existing_count, status_list, priority_list,
                  category_list, i, tickets_created, workload, ticket_doc,
                  create_calls, close_calls, outcome, now, seed, errors,
                  run, exit_code, knowledge_base, find_calls, init_calls, repo_calls >>

\* the 'shared' directory is missing: return 1
MainNoShared ==
  /\ pc = "main"
  /\ exit_code' = 1
  /\ pc' = "exited"
  /\ UNCHANGED << tickets, initial_count, existing_count, status_list, priority_list,
                  category_list, i, tickets_created, workload, ticket_doc,
                  create_calls, close_calls, outcome, now, seed, errors,
                  run, knowledge_base, find_calls, init_calls, repo_calls >>

\* variant: only Exception is handled, an interrupt is taken for success
ExitCodeOf_nointerrupt(o) ==
  IF o.kind = "return" \/ o.error = "interrupt" THEN 0 ELSE 1

\* the try/except of main around asyncio.run
ExitCodeOf(o) ==
  IF o.kind = "return" THEN 0
  ELSE IF o.error = "interrupt" THEN 1
  ELSE 1

\* asyncio.run has returned or raised: main returns
MainExit ==
  /\ pc = "done"
  /\ exit_code' = ExitCodeOf(outcome)
  /\ pc' = "exited"
  /\ UNCHANGED << tickets, initial_count, existing_count, status_list, priority_list,
                  category_list, i, tickets_created, workload, ticket_doc,
                  create_calls, close_calls, outcome, now, seed, errors,
                  run, knowledge_base, find_calls, init_calls, repo_calls >>

Next ==
  \/ MainRun \/ MainNoShared \/ MainExit
  \/ CheckExisting \/ CheckExistingError
  \/ GuardSkip \/ InitConnections \/ InitConnectionsError
  \/ BuildLists
  \/ CreateTicket \/ CreateTicketError \/ ReturnCreated
  \/ CloseConnections \/ CloseConnectionsError
  \/ InterruptCheck \/ InterruptInit \/ InterruptCreate \/ InterruptClose

Spec == Init /\ [][Next]_vars

(* --------------------------- successive runs --------------------------- *)
\* The ticket script started again against the store the previous run left,
\* every operation succeeding.
InitEmpty == Init /\ initial_count = 0

\* a new process: module state is fresh, the store is kept
NextRun ==
  /\ pc = "exited"
  /\ run < MaxRuns
  /\ run' = run + 1
  /\ pc' = "main"
  /\ initial_count' = Len(tickets)
  /\ existing_count' = 0
  /\ status_list' = <<>> /\ priority_list' = <<>> /\ category_list' = <<>>
  /\ i' = 0
  /\ tickets_created' = 0
  /\ workload' = ZeroWorkload
  /\ ticket_doc' = NoDoc
  /\ create_calls' = 0
  /\ close_calls' = 0
  /\ outcome' = NoOutcome
  /\ errors' = {}
  /\ exit_code' = -1
  /\ find_calls' = 0
  /\ init_calls' = 0
  /\ repo_calls' = 0
  /\ UNCHANGED << tickets, knowledge_base, now, seed >>

NextRuns ==
  \/ MainRun \/ CheckExisting \/ GuardSkip \/ InitConnections \/ BuildLists
  \/ CreateTicket \/ ReturnCreated \/ CloseConnections \/ MainExit
  \/ NextRun

SpecRuns == InitEmpty /\ [][NextRuns]_vars

(* ----------------------- populate_knowledge_base ----------------------- *)
\* the titles of the sample articles, in list order
SAMPLE_ARTICLES ==
  << "How to Reset Your Windows Password",
     "VPN Connection Setup Guide",
     "Email Configuration for Outlook",
     "Printer Setup and Troubleshooting",
     "Software Installation Requests",
     "Wi-Fi Connection Troubleshooting",
     "Multi-Factor Authentication (MFA) Setup",
     "File Sharing and OneDrive Usage",
     "Advanced Password Recovery Methods",
     "VPN Troubleshooting Checklist",
     "Email Synchronization Best Practices",
     "Printer Driver Installation Guide" >>

\* titles of articles some other writer stored
UnrelatedTitles ==
  << "Unrelated article 1",
     "Unrelated article 2",
     "Unrelated article 3",
     "Unrelated article 4",
     "Unrelated article 5",
     "Unrelated article 6",
     "Unrelated article 7",
     "Unrelated article 8",
     "Unrelated article 9",
     "Unrelated article 10",
     "Unrelated article 11",
     "Unrelated article 12",
     "Unrelated article 13",
     "Unrelated article 14" >>

\* numbers of unrelated articles in the store before the run
ForeignCounts ==
  (0..MaxForeign) \cup ((Len(SAMPLE_ARTICLES) - 1)..(Len(SAMPLE_ARTICLES) + MaxForeign))

\* sample articles in the store before the run, by index: the first j, the
\* last j, and one article stored twice
InitialSamples ==
  {[n \in 1..j |-> n] : j \in 0..Len(SAMPLE_ARTICLES)}
    \cup {[n \in 1..j |-> Len(SAMPLE_ARTICLES) - j + n] : j \in 1..Len(SAMPLE_ARTICLES)}
    \cup {<<1, 1>>}

ArticleDoc(title) == [title |-> title]

\* variant: the query names a field the documents do not have
Present_byname(kb, title) ==
  \E n \in DOMAIN kb : "name" \in DOMAIN kb[n] /\ kb[n].name = title

\* find_one({"title": title}) finds a document
Present(kb, title) == \E n \in DOMAIN kb : kb[n].title = title

InitKB ==
  /\ pc = "kb_init"
  /\ \E f \in ForeignCounts, present \in InitialSamples :
       knowledge_base = [n \in 1..f |-> ArticleDoc(UnrelatedTitles[n])]
                          \o [n \in DOMAIN present |-> ArticleDoc(SAMPLE_ARTICLES[present[n]])]
  /\ initial_count = Len(knowledge_base)
  /\ tickets = <<>>
  /\ existing_count = 0
  /\ status_list = <<>> /\ priority_list = <<>> /\ category_list = <<>>
  /\ i = 0
  /\ tickets_created = 0
  /\ workload = ZeroWorkload
  /\ ticket_doc = NoDoc
  /\ create_calls = 0
  /\ close_calls = 0
  /\ outcome = NoOutcome
  /\ now \in NowValues
  /\ seed = 0
  /\ errors = {}
  /\ run = 1
  /\ exit_code = -1
  /\ find_calls = 0
  /\ init_calls = 0
  /\ repo_calls = 0

\* what no step of populate_knowledge_base touches
KbFrame ==
  UNCHANGED << tickets, initial_count, status_list, priority_list, category_list,
               tickets_created, workload, ticket_doc, now, seed, run, exit_code >>

\* init_database_connections returns
KbInit ==
  /\ pc = "kb_init"
  /\ init_calls' = init_calls + 1
  /\ pc' = "kb_count"
  /\ KbFrame
  /\ UNCHANGED << knowledge_base, existing_count, i, create_calls, find_calls,
                  repo_calls, close_calls, outcome, errors >>

\* init_database_connections raises
KbInitError ==
  /\ pc = "kb_init"
  /\ init_calls' = init_calls + 1
  /\ outcome' = [kind |-> "raise", value |-> 0, error |-> "init"]
  /\ errors' = errors \cup {"init"}
  /\ pc' = "kb_finally"
  /\ KbFrame
  /\ UNCHANGED << knowledge_base, existing_count, i, create_calls, find_calls,
                  repo_calls, close_calls >>

\* existing_count = await kb_repo.count({})
KbCount ==
  /\ pc = "kb_count"
  /\ repo_calls' = repo_calls + 1
  /\ existing_count' = Len(knowledge_base)
  /\ pc' = "kb_guard"
  /\ KbFrame
  /\ UNCHANGED << knowledge_base, i, create_calls, find_calls, init_calls,
                  close_calls, outcome, errors >>

\* count raises
KbCountError ==
  /\ pc = "kb_count"
  /\ repo_calls' = repo_calls + 1
  /\ outcome' = [kind |-> "raise", value |-> 0, error |-> "count"]
  /\ errors' = errors \cup {"count"}
  /\ pc' = "kb_finally"
  /\ KbFrame
  /\ UNCHANGED << knowledge_base, existing_count, i, create_calls, find_calls,
                  init_calls, close_calls >>

\* variant: the guard compares with > instead of >=
KbSufficient_strict(n) == n > Len(SAMPLE_ARTICLES)

\* existing_count >= len(SAMPLE_ARTICLES)
KbSufficient(n) == n >= Len(SAMPLE_ARTICLES)

\* the guard holds: return
KbGuardSkip ==
  /\ pc = "kb_guard"
  /\ KbSufficient(existing_count)
  /\ outcome' = [kind |-> "return", value |-> 0, error |-> "none"]
  /\ pc' = "kb_finally"
  /\ KbFrame
  /\ UNCHANGED << knowledge_base, existing_count, i, create_calls, find_calls,
                  init_calls, repo_calls, close_calls, errors >>

\* variant: the loop starts at the second article
KbAddArticles_fromsecond ==
  /\ pc = "kb_guard"
  /\ ~KbSufficient(existing_count)
  /\ i' = 1
  /\ pc' = "kb_loop"
  /\ KbFrame
  /\ UNCHANGED << knowledge_base, existing_count, create_calls, find_calls,
                  init_calls, repo_calls, close_calls, outcome, errors >>

\* the guard fails: the loop over SAMPLE_ARTICLES starts
KbAddArticles ==
  /\ pc = "kb_guard"
  /\ ~KbSufficient(existing_count)
  /\ i' = 0
  /\ pc' = "kb_loop"
  /\ KbFrame
  /\ UNCHANGED << knowledge_base, existing_count, create_calls, find_calls,
                  init_calls, repo_calls, close_calls, outcome, errors >>

\* find_one finds the title: continue
KbSkipExisting ==
  /\ pc = "kb_loop"
  /\ i < Len(SAMPLE_ARTICLES)
  /\ Present(knowledge_base, SAMPLE_ARTICLES[i + 1])
  /\ find_calls' = find_calls + 1
  /\ repo_calls' = repo_calls + 1
  /\ i' = i + 1
  /\ KbFrame
  /\ UNCHANGED << pc, knowledge_base, existing_count, create_calls, init_calls,
                  close_calls, outcome, errors >>

\* variant: the article is created whatever find_one reports
KbCreateArticle_nocheck ==
  /\ pc = "kb_loop"
  /\ i < Len(SAMPLE_ARTICLES)
  /\ find_calls' = find_calls + 1
  /\ create_calls' = create_calls + 1
  /\ repo_calls' = repo_calls + 2
  /\ knowledge_base' = Append(knowledge_base, ArticleDoc(SAMPLE_ARTICLES[i + 1]))
  /\ i' = i + 1
  /\ KbFrame
  /\ UNCHANGED << pc, existing_count, init_calls, close_calls, outcome, errors >>

\* variant: the article is written to another collection
KbCreateArticle_elsewhere ==
  /\ pc = "kb_loop"
  /\ i < Len(SAMPLE_ARTICLES)
  /\ ~Present(knowledge_base, SAMPLE_ARTICLES[i + 1])
  /\ find_calls' = find_calls + 1
  /\ create_calls' = create_calls + 1
  /\ repo_calls' = repo_calls + 2
  /\ knowledge_base' = knowledge_base
  /\ i' = i + 1
  /\ KbFrame
  /\ UNCHANGED << pc, existing_count, init_calls, close_calls, outcome, errors >>

\* find_one finds nothing and create returns
KbCreateArticle ==
  /\ pc = "kb_loop"
  /\ i < Len(SAMPLE_ARTICLES)
  /\ ~Present(knowledge_base, SAMPLE_ARTICLES[i + 1])
  /\ find_calls' = find_calls + 1
  /\ create_calls' = create_calls + 1
  /\ repo_calls' = repo_calls + 2
  /\ knowledge_base' = Append(knowledge_base, ArticleDoc(SAMPLE_ARTICLES[i + 1]))
  /\ i' = i + 1
  /\ KbFrame
  /\ UNCHANGED << pc, existing_count, init_calls, close_calls, outcome, errors >>

\* find_one raises
KbFindError ==
  /\ pc = "kb_loop"
  /\ i < Len(SAMPLE_ARTICLES)
  /\ find_calls' = find_calls + 1
  /\ repo_calls' = repo_calls + 1
  /\ outcome' = [kind |-> "raise", value |-> 0, error |-> "find_one"]
  /\ errors' = errors \cup {"find_one"}
  /\ pc' = "kb_finally"
  /\ KbFrame
  /\ UNCHANGED << knowledge_base, existing_count, i, create_calls, init_calls,
                  close_calls >>

\* find_one finds nothing and create raises
KbCreateError ==
  /\ pc = "kb_loop"
  /\ i < Len(SAMPLE_ARTICLES)
  /\ ~Present(knowledge_base, SAMPLE_ARTICLES[i + 1])
  /\ find_calls' = find_calls + 1
  /\ create_calls' = create_calls + 1
  /\ repo_calls' = repo_calls + 2
  /\ outcome' = [kind |-> "raise", value |-> 0, error |-> "create"]
  /\ errors' = errors \cup {"create"}
  /\ pc' = "kb_finally"
  /\ KbFrame
  /\ UNCHANGED << knowledge_base, existing_count, i, init_calls, close_calls >>

\* after the loop: the final count and find_many for the category breakdown
KbSummary ==
  /\ pc = "kb_loop"
  /\ i >= Len(SAMPLE_ARTICLES)
  /\ repo_calls' = repo_calls + 2
  /\ outcome' = [kind |-> "return", value |-> 0, error |-> "none"]
  /\ pc' = "kb_finally"
  /\ KbFrame
  /\ UNCHANGED << knowledge_base, existing_count, i, create_calls, find_calls,
                  init_calls, close_calls, errors >>

\* the final count or find_many raises
KbSummaryError ==
  /\ pc = "kb_loop"
  /\ i >= Len(SAMPLE_ARTICLES)
  /\ \E n \in {1, 2} : repo_calls' = repo_calls + n
  /\ outcome' = [kind |-> "raise", value |-> 0, error |-> "summary"]
  /\ errors' = errors \cup {"summary"}
  /\ pc' = "kb_finally"
  /\ KbFrame
  /\ UNCHANGED << knowledge_base, existing_count, i, create_calls, find_calls,
                  init_calls, close_calls >>

\* finally: close_connections returns
KbClose ==
  /\ pc = "kb_finally"
  /\ close_calls' = close_calls + 1
  /\ pc' = "kb_done"
  /\ KbFrame
  /\ UNCHANGED << knowledge_base, existing_count, i, create_calls, find_calls,
                  init_calls, repo_calls, outcome, errors >>

\* finally: close_connections raises, the warning is printed
KbCloseError ==
  /\ pc = "kb_finally"
  /\ close_calls' = close_calls + 1
  /\ errors' = errors \cup {"close"}
  /\ pc' = "kb_done"
  /\ KbFrame
  /\ UNCHANGED << knowledge_base, existing_count, i, create_calls, find_calls,
                  init_calls, repo_calls, outcome >>

\* a process-level interrupt while init, count or find_one is awaited
KbInterrupt ==
  /\ \/ pc = "kb_init" /\ init_calls' = init_calls + 1
        /\ UNCHANGED << repo_calls, find_calls >>
     \/ pc = "kb_count" /\ repo_calls' = repo_calls + 1
        /\ UNCHANGED << init_calls, find_calls >>
     \/ pc = "kb_loop" /\ i < Len(SAMPLE_ARTICLES)
        /\ repo_calls' = repo_calls + 1 /\ find_calls' = find_calls + 1
        /\ UNCHANGED init_calls
  /\ outcome' = [kind |-> "raise", value |-> 0, error |-> "interrupt"]
  /\ errors' = errors \cup {"interrupt"}
  /\ pc' = "kb_finally"
  /\ KbFrame
  /\ UNCHANGED << knowledge_base, existing_count, i, create_calls, close_calls >>

\* a process-level interrupt while create is awaited; the store may or may not
\* have taken the article
KbInterruptCreate ==
  /\ pc = "kb_loop"
  /\ i < Len(SAMPLE_ARTICLES)
  /\ ~Present(knowledge_base, SAMPLE_ARTICLES[i + 1])
  /\ find_calls' = find_calls + 1
  /\ create_calls' = create_calls + 1
  /\ repo_calls' = repo_calls + 2
  /\ knowledge_base' \in
       {knowledge_base, Append(knowledge_base, ArticleDoc(SAMPLE_ARTICLES[i + 1]))}
  /\ outcome' = [kind |-> "raise", value |-> 0, error |-> "interrupt"]
  /\ errors' = errors \cup {"interrupt"}
  /\ pc' = "kb_finally"
  /\ KbFrame
  /\ UNCHANGED << existing_count, i, init_calls, close_calls >>

\* a process-level interrupt while close_connections is awaited
KbInterruptClose ==
  /\ pc = "kb_finally"
  /\ close_calls' = close_calls + 1
  /\ outcome' = [kind |-> "raise", value |-> 0, error |-> "interrupt"]
  /\ errors' = errors \cup {"interrupt"}
  /\ pc' = "kb_done"
  /\ KbFrame
  /\ UNCHANGED << knowledge_base, existing_count, i, create_calls, find_calls,
                  init_calls, repo_calls >>

NextKB ==
  \/ KbInit \/ KbInitError \/ KbCount \/ KbCountError
  \/ KbGuardSkip \/ KbAddArticles
  \/ KbSkipExisting \/ KbCreateArticle \/ KbFindError \/ KbCreateError
  \/ KbSummary \/ KbSummaryError
  \/ KbClose \/ KbCloseError
  \/ KbInterrupt \/ KbInterruptCreate \/ KbInterruptClose

SpecKB == InitKB /\ [][NextKB]_vars

\* either script, run once
InitScripts == Init \/ InitKB
NextScripts == Next \/ NextKB
SpecScripts == InitScripts /\ [][NextScripts]_vars

(* ------------------------ the lists on their own ----------------------- *)
\* The building of the lists alone, over a wider set of shuffle outcomes.
WideStrides == {1, 3, 7}
WideChoices == {<<r, s>> : r \in 0..MaxRotation, s \in WideStrides}

InitLists ==
  /\ pc = "build"
  /\ initial_count = 0
  /\ tickets = <<>>
  /\ existing_count = 0
  /\ status_list = <<>> /\ priority_list = <<>> /\ category_list = <<>>
  /\ i = 0
  /\ tickets_created = 0
  /\ workload = ZeroWorkload
  /\ ticket_doc = NoDoc
  /\ create_calls = 0
  /\ close_calls = 0
  /\ outcome = NoOutcome
  /\ now \in NowValues
  /\ seed = 0
  /\ errors = {}
  /\ run = 1
  /\ exit_code = -1
  /\ knowledge_base = <<>>
  /\ find_calls = 0
  /\ init_calls = 0
  /\ repo_calls = 0

BuildListsWide == BuildWith(WideChoices)

NextLists == BuildListsWide

SpecLists == InitLists /\ [][NextLists]_vars

(* ----------------- the assignment policy on ticket streams ------------- *)
\* The loop body applied to an arbitrary stream of tickets: every status and
\* category the lists can hold, in every order, from zero workloads.
InitAssign ==
  /\ pc = "stream"
  /\ initial_count = 0
  /\ tickets = <<>>
  /\ existing_count = 0
  /\ status_list = <<>> /\ priority_list = <<>> /\ category_list = <<>>
  /\ i = 0
  /\ tickets_created = 0
  /\ workload = ZeroWorkload
  /\ ticket_doc = NoDoc
  /\ create_calls = 0
  /\ close_calls = 0
  /\ outcome = NoOutcome
  /\ now \in NowValues
  /\ seed = 0
  /\ errors = {}
  /\ run = 1
  /\ exit_code = -1
  /\ knowledge_base = <<>>
  /\ find_calls = 0
  /\ init_calls = 0
  /\ repo_calls = 0

\* lines 514-623 of the loop body for a ticket of the given status and category
StreamTicket ==
  /\ pc = "stream"
  /\ i < MaxStream
  /\ \E status \in Statuses, category \in Categories :
       LET d == Draws(seed, i, status, "Medium") IN
       /\ ticket_doc' = TicketDoc(TitleAt(i, d.base), status, category, "Medium",
                                  now, d, workload)
       /\ workload' = Assigned(status, category, workload)
  /\ i' = i + 1
  /\ UNCHANGED << pc, tickets, initial_count, existing_count, status_list,
                  priority_list, category_list, tickets_created, create_calls,
                  close_calls, outcome, now, seed, errors,
                  run, exit_code, knowledge_base, find_calls >>
  /\ UNCHANGED << init_calls, repo_calls >>

NextAssign == StreamTicket

SpecAssign == InitAssign /\ [][NextAssign]_vars

\* The same for streams of non-Open tickets of one category, which is kept in
\* category_list.
InitSameCategory ==
  /\ pc = "same"
  /\ initial_count = 0
  /\ tickets = <<>>
  /\ existing_count = 0
  /\ status_list = <<>> /\ priority_list = <<>>
  /\ category_list \in {<<c>> : c \in Categories}
  /\ i = 0
  /\ tickets_created = 0
  /\ workload = ZeroWorkload
  /\ ticket_doc = NoDoc
  /\ create_calls = 0
  /\ close_calls = 0
  /\ outcome = NoOutcome
  /\ now \in NowValues
  /\ seed = 0
  /\ errors = {}
  /\ run = 1
  /\ exit_code = -1
  /\ knowledge_base = <<>>
  /\ find_calls = 0
  /\ init_calls = 0
  /\ repo_calls = 0

SameCategoryTicket ==
  /\ pc = "same"
  /\ i < MaxAssign
  /\ \E status \in Statuses \ {"Open"} :
       LET d == Draws(seed, i, status, "Medium") IN
       /\ ticket_doc' = TicketDoc(TitleAt(i, d.base), status, category_list[1],
                                  "Medium", now, d, workload)
       /\ workload' = Assigned(status, category_list[1], workload)
  /\ i' = i + 1
  /\ UNCHANGED << pc, tickets, initial_count, existing_count, status_list,
                  priority_list, category_list, tickets_created, create_calls,
                  close_calls, outcome, now, seed, errors,
                  run, exit_code, knowledge_base, find_calls >>
  /\ UNCHANGED << init_calls, repo_calls >>

NextSameCategory == SameCategoryTicket

SpecSameCategory == InitSameCategory /\ [][NextSameCategory]_vars

(* --------------------- the synthesis of one document ------------------- *)
\* utcnow values explored: day 100 at 00:00, 10:30 and 23:59
SynthNowValues == {144000, 144630, 145439}

EndPoints(r) == {r[1], r[2]}

\* the draws explored for one document: the ends of every range
DrawSpace(status, priority) ==
  [ base : {1, 5},
    days_ago : EndPoints(DaysAgoRange(status)),
    hour : {0, 8, 18, 23},
    hours : {0, 23},
    minutes : {0, 59},
    resolution : {1},
    resolution_minutes : EndPoints(ResolutionRange(priority)) ]

InitSynth ==
  /\ pc = "synth"
  /\ initial_count = 0
  /\ tickets = <<>>
  /\ existing_count = 0
  /\ status_list = <<>> /\ priority_list = <<>> /\ category_list = <<>>
  /\ i \in {0, Len(ENHANCED_TICKET_SCENARIOS)}
  /\ tickets_created = 0
  /\ workload = ZeroWorkload
  /\ ticket_doc = NoDoc
  /\ create_calls = 0
  /\ close_calls = 0
  /\ outcome = NoOutcome
  /\ now \in SynthNowValues
  /\ seed = 0
  /\ errors = {}
  /\ run = 1
  /\ exit_code = -1
  /\ knowledge_base = <<>>
  /\ find_calls = 0
  /\ init_calls = 0
  /\ repo_calls = 0

\* lines 514-623 of the loop body for one ticket and any draws
SynthTicket ==
  /\ pc = "synth"
  /\ \E status \in Statuses, category \in Categories, priority \in Priorities :
       \E d \in DrawSpace(status, priority) :
         /\ ticket_doc' = TicketDoc(TitleAt(i, d.base), status, category, priority,
                                    now, d, workload)
         /\ workload' = Assigned(status, category, workload)
  /\ pc' = "synthed"
  /\ UNCHANGED << tickets, initial_count, existing_count, status_list, priority_list,
                  category_list, i, tickets_created, create_calls, close_calls,
                  outcome, now, seed, errors,
                  run, exit_code, knowledge_base, find_calls >>
  /\ UNCHANGED << init_calls, repo_calls >>

NextSynth == SynthTicket

SpecSynth == InitSynth /\ [][NextSynth]_vars

(* ------------------------------ properties ----------------------------- *)
\* the documents created by this run
Created == SubSeq(tickets, initial_count + 1, Len(tickets))

Labels(dist) == {dist[n][1] : n \in DOMAIN dist}
Configured(dist, label) == dist[CHOOSE n \in DOMAIN dist : dist[n][1] = label][2]

\* number of documents of docs whose field f is x
Tally(docs, f, x) == Cardinality({n \in DOMAIN docs : docs[n][f] = x})

Returned(v) == outcome = [kind |-> "return", value |-> v, error |-> "none"]

\* C1: whenever the collection already holds at least 50 tickets, the run
\* issues no create call and returns the existing count.
C1_FullCollectionNoCreate ==
  initial_count >= GUARD_THRESHOLD =>
    /\ create_calls = 0
    /\ (pc = "done" => Returned(initial_count))

\* C2: with k < 50 tickets in the collection and no failing operation, exactly
\* 50 create calls are issued, the collection ends with k + 50 tickets and 50
\* is returned.
C2_FiftyCreatesWhateverExists ==
  (pc = "done" /\ errors = {} /\ initial_count < GUARD_THRESHOLD) =>
    /\ create_calls = TOTAL_TICKETS
    /\ Len(tickets) = initial_count + TOTAL_TICKETS
    /\ Returned(TOTAL_TICKETS)

C2_Witness ==
  /\ pc = "done" /\ errors = {}
  /\ initial_count = GUARD_THRESHOLD - 1
  /\ create_calls = TOTAL_TICKETS
  /\ Len(tickets) = 2 * TOTAL_TICKETS - 1

\* C3: after a run without failure from an empty collection, the categories
\* of the created tickets tally to CATEGORY_DISTRIBUTION.
C3_CategoryTally ==
  (pc = "done" /\ errors = {} /\ initial_count = 0) =>
    \A c \in Labels(CATEGORY_DISTRIBUTION) :
      Tally(Created, "category", c) = Configured(CATEGORY_DISTRIBUTION, c)

\* C4: after a run that generated without failure, the statuses of the created
\* tickets tally to STATUS_DISTRIBUTION.
C4_StatusTally ==
  (pc = "done" /\ errors \subseteq {"check", "check_init", "check_count"}
     /\ outcome.kind = "return"
     /\ create_calls > 0) =>
    /\ Len(Created) = TOTAL_TICKETS
    /\ \A st \in Labels(STATUS_DISTRIBUTION) :
         Tally(Created, "status", st) = Configured(STATUS_DISTRIBUTION, st)

C4_Witness ==
  /\ pc = "done" /\ errors = {} /\ create_calls = TOTAL_TICKETS
  /\ status_list # Expand(STATUS_DISTRIBUTION)
  /\ Tally(Created, "status", "Closed") = 5

\* C5: after a run that generated without failure, the priorities of the
\* created tickets tally to PRIORITY_DISTRIBUTION.
C5_PriorityTally ==
  (pc = "done" /\ errors = {} /\ create_calls > 0) =>
    \A pr \in Labels(PRIORITY_DISTRIBUTION) :
      Tally(Created, "priority", pr) = Configured(PRIORITY_DISTRIBUTION, pr)

\* exactly the configured count of every label, and nothing else
ExactlyDistributed(list, dist) ==
  /\ Len(list) = TOTAL_TICKETS
  /\ \A x \in Labels(dist) : Count(list, x) = Configured(dist, x)
  /\ \A j \in DOMAIN list : list[j] \in Labels(dist)

\* C6: once built and shuffled, status_list, priority_list and category_list
\* each have length 50 and hold every label exactly its configured count.
C6_ListsKeepDistribution ==
  (pc = "loop" \/ create_calls > 0) =>
    /\ ExactlyDistributed(status_list, STATUS_DISTRIBUTION)
    /\ ExactlyDistributed(priority_list, PRIORITY_DISTRIBUTION)
    /\ ExactlyDistributed(category_list, CATEGORY_DISTRIBUTION)

C6_Witness ==
  /\ pc = "loop"
  /\ status_list # Expand(STATUS_DISTRIBUTION)
  /\ priority_list # Expand(PRIORITY_DISTRIBUTION)
  /\ category_list # Expand(CATEGORY_DISTRIBUTION)
  /\ ExactlyDistributed(category_list, CATEGORY_DISTRIBUTION)

SkilledAgents(c) == {a \in DOMAIN AGENTS : c \in AGENTS[a].skills}
LeastLoaded(wl) == {a \in DOMAIN AGENTS : \A b \in DOMAIN AGENTS : wl[a] <= wl[b]}
FirstOf(S) == CHOOSE a \in S : \A b \in S : a <= b
AgentNames == {AGENTS[a].name : a \in DOMAIN AGENTS}
AgentNamed(nm) == CHOOSE a \in DOMAIN AGENTS : AGENTS[a].name = nm

\* the agent the policy of section 4.2 names for category c under workloads wl
PolicyAgent(c, wl) ==
  LET free == {a \in SkilledAgents(c) : wl[a] < SATURATION} IN
  IF free # {} THEN FirstOf(free) ELSE FirstOf(LeastLoaded(wl))

\* C7: a ticket whose status is not Open is assigned to the first agent in
\* AGENTS order that has the category among its skills and a workload below 8,
\* and if there is none, to the first agent in AGENTS order of minimal workload.
C7_SkillThenLeastLoaded ==
  [][ (pc = "stream" /\ i' = i + 1 /\ ticket_doc'.status # "Open") =>
        /\ "assigned_to" \in DOMAIN ticket_doc'
        /\ ticket_doc'.assigned_to = AGENTS[PolicyAgent(ticket_doc'.category, workload)].name
    ]_vars

\* a ticket went to an agent without the skill: the fallback acted
C7_Witness ==
  /\ pc = "stream"
  /\ "assigned_to" \in DOMAIN ticket_doc
  /\ ticket_doc.category \notin AGENTS[AgentNamed(ticket_doc.assigned_to)].skills
  /\ \E a \in DOMAIN AGENTS : workload[a] = SATURATION

\* C8 as stated: in a stream of non-Open tickets of one category the first
\* agent with the skill gains 1 per ticket up to 8, and the ticket after that
\* goes to the agent the fallback picks, the first of minimal workload.
C8_SaturationThenFallback ==
  [][ (pc = "same" /\ i' = i + 1) =>
        LET first == FirstOf(SkilledAgents(category_list[1])) IN
        /\ workload[first] < SATURATION => workload'[first] = workload[first] + 1
        /\ (workload[first] = SATURATION /\ i = SATURATION) =>
             ticket_doc'.assigned_to = AGENTS[FirstOf(LeastLoaded(workload))].name
    ]_vars

\* workload of the agent of rank r among the skilled ones after n tickets
Filled(n, r) ==
  IF n <= SATURATION * r THEN 0
  ELSE IF n >= SATURATION * (r + 1) THEN SATURATION
  ELSE n - SATURATION * r

\* C8 as amended: the agents with the skill are filled in AGENTS order, each
\* by 1 per ticket up to 8, the others staying at 0; only when all of them
\* are at 8 does a ticket go to the first agent of minimal workload.
C8_SkilledAgentsFillInOrder ==
  pc = "same" =>
    LET skilled == SkilledAgents(category_list[1])
        Rank(a) == Cardinality({b \in skilled : b < a})
    IN
    /\ i <= SATURATION * Cardinality(skilled) =>
         \A a \in DOMAIN AGENTS :
           workload[a] = IF a \in skilled THEN Filled(i, Rank(a)) ELSE 0
    /\ i > SATURATION * Cardinality(skilled) =>
         LET a == AgentNamed(ticket_doc.assigned_to) IN
         \A b \in DOMAIN AGENTS \ {a} :
           /\ b < a => workload[b] > workload[a] - 1
           /\ b > a => workload[b] >= workload[a] - 1

\* both skilled agents of Access are at 8 and the 17th ticket went to the first
\* agent of the pool
C8_Witness ==
  /\ pc = "same"
  /\ category_list = <<"Access">>
  /\ i = 2 * SATURATION + 1
  /\ workload[2] = SATURATION /\ workload[3] = SATURATION
  /\ ticket_doc.assigned_to = "Sarah Wilson"

AssignmentMatchesStatus(doc) ==
  /\ ("assigned_to" \in DOMAIN doc) <=> (doc.status # "Open")
  /\ ("assigned_to" \in DOMAIN doc) => doc.assigned_to \in AgentNames

\* C9: a ticket document carries assigned_to exactly when its status is not
\* Open, and assigned_to then is the name of one of the six agents.
C9_AssignedIffNotOpen ==
  /\ (create_calls > 0 => AssignmentMatchesStatus(ticket_doc))
  /\ (pc = "done" => \A n \in DOMAIN Created : AssignmentMatchesStatus(Created[n]))

C9_Witness ==
  /\ pc = "done" /\ errors = {} /\ create_calls = TOTAL_TICKETS
  /\ \E n \in DOMAIN Created : Created[n].status = "Open"
  /\ \E n \in DOMAIN Created :
       Created[n].status = "InProgress" /\ Created[n].assigned_to = "Lisa Anderson"

\* C10: a ticket document carries resolution exactly when its status is
\* Resolved or Closed; updated_at equals created_at for Open and InProgress
\* and is later than created_at for Resolved and Closed.
C10_ResolutionAndUpdate ==
  pc = "synthed" =>
    /\ ("resolution" \in DOMAIN ticket_doc) <=> (ticket_doc.status \in {"Resolved", "Closed"})
    /\ ticket_doc.status \in {"Open", "InProgress"} =>
         ticket_doc.updated_at = ticket_doc.created_at
    /\ ticket_doc.status \in {"Resolved", "Closed"} =>
         ticket_doc.updated_at > ticket_doc.created_at

C10_Witness ==
  /\ pc = "synthed"
  /\ ticket_doc.status = "Closed" /\ ticket_doc.priority = "Critical"
  /\ "resolution" \in DOMAIN ticket_doc
  /\ ticket_doc.updated_at = ticket_doc.created_at + 30

\* the interval of updated_at - created_at of section 4.2, in minutes
LatencyInterval(priority) ==
  CASE priority = "Critical" -> 30..(4 * 60)
    [] priority = "High"     -> (2 * 60)..(24 * 60)
    [] priority = "Medium"   -> (4 * 60)..(72 * 60)
    [] priority = "Low"      -> (24 * 60)..(168 * 60)

\* C11: for a Resolved or Closed ticket, updated_at - created_at lies in the
\* interval of its priority (Critical 0.5-4h, High 2-24h, Medium 4-72h,
\* Low 24-168h), for scenario tickets and for template tickets.
C11_LatencyWithinInterval ==
  (pc = "synthed" /\ ticket_doc.status \in {"Resolved", "Closed"}) =>
    ticket_doc.updated_at - ticket_doc.created_at \in LatencyInterval(ticket_doc.priority)

C11_Witness ==
  /\ pc = "synthed"
  /\ ticket_doc.status = "Resolved" /\ ticket_doc.priority = "Medium"
  /\ ticket_doc.title.kind = "template"
  /\ ticket_doc.updated_at - ticket_doc.created_at = 72 * 60

\* C12: when the knowledge_base collection already holds at least 12
\* articles, the run issues no find_one and no create call and leaves the
\* collection as it was.
C12_SufficientArticlesNoWrite ==
  (pc \in {"kb_init", "kb_count", "kb_guard", "kb_loop", "kb_finally", "kb_done"}
     /\ initial_count >= Len(SAMPLE_ARTICLES)) =>
    /\ find_calls = 0
    /\ create_calls = 0
    /\ Len(knowledge_base) = initial_count
    /\ pc # "kb_loop"

\* twelve unrelated articles and no sample article: the run returned at the guard
C12_Witness ==
  /\ pc = "kb_done"
  /\ initial_count = Len(SAMPLE_ARTICLES)
  /\ outcome.kind = "return"
  /\ repo_calls = 1
  /\ ~Present(knowledge_base, SAMPLE_ARTICLES[1])

\* no title is stored twice
UniqueTitles(docs) ==
  \A m, n \in DOMAIN docs : docs[m].title = docs[n].title => m = n

\* C13: create is never issued for a sample title that is in the store, so a
\* store whose titles were unique before the run has unique titles after it.
C13_NoCreateForPresentTitle ==
  /\ [](UniqueTitles(SubSeq(knowledge_base, 1, initial_count)) => UniqueTitles(knowledge_base))
  /\ [][ create_calls' = create_calls + 1 =>
           ~Present(knowledge_base, SAMPLE_ARTICLES[i + 1]) ]_vars

\* a run that skipped some titles and created the others
C13_Witness ==
  /\ pc = "kb_done" /\ outcome.kind = "return"
  /\ create_calls > 0 /\ find_calls = Len(SAMPLE_ARTICLES) /\ create_calls < find_calls
  /\ UniqueTitles(knowledge_base)
  /\ \A n \in DOMAIN SAMPLE_ARTICLES : Present(knowledge_base, SAMPLE_ARTICLES[n])

\* the try block of the run has been left and the finally block is over
RunOver == pc \in {"done", "kb_done"} \/ (pc = "exited" /\ outcome # NoOutcome)

\* C14: every run of either script calls close_connections exactly once, after
\* its last repository operation, on every exit path.
C14_CloseExactlyOnceAtEnd ==
  /\ [](close_calls = IF RunOver THEN 1 ELSE 0)
  /\ [][ close_calls >= 1 =>
           /\ repo_calls' = repo_calls /\ init_calls' = init_calls
           /\ create_calls' = create_calls /\ find_calls' = find_calls ]_vars

\* a ticket run interrupted in a create call has closed its connections
C14_Witness ==
  /\ pc = "done"
  /\ outcome.error = "interrupt"
  /\ create_calls > 1
  /\ close_calls = 1
  /\ "close" \notin errors

\* operations whose exception leaves the try block
Fatal == {"init", "count", "find_one", "create", "summary", "interrupt"}

\* C15: an exception of close_connections is never propagated: the run ends
\* with the return value or the exception its try block produced.
C15_TeardownErrorSwallowed ==
  "close" \in errors =>
    /\ RunOver
    /\ outcome.kind \in {"return", "raise"}
    /\ outcome.error # "close"
    /\ outcome.kind = "raise" <=> errors \cap Fatal # {}
    /\ (outcome.kind = "return" /\ pc \in {"done", "exited"}) =>
         outcome.value = IF create_calls = 0 THEN existing_count ELSE tickets_created

C15_Witness ==
  /\ pc = "done"
  /\ "close" \in errors
  /\ Returned(TOTAL_TICKETS)

\* C16: when the create of ticket k raises, no further create is issued, the
\* exception leaves generate_enhanced_tickets and the k tickets created
\* before stay stored.
C16_CreateFailureAborts ==
  "create" \in errors =>
    /\ pc \in {"finally", "done", "exited"}
    /\ i = tickets_created
    /\ create_calls = i + 1
    /\ Len(Created) = i
    /\ outcome.kind = "raise"
    /\ "interrupt" \notin errors => outcome.error = "create"

C16_Witness ==
  /\ pc = "done"
  /\ outcome.error = "create"
  /\ tickets_created = 7
  /\ Len(Created) = 7

\* C17: in both scripts a raising init_database_connections aborts the run: no
\* create call follows and the exception reaches the caller.
C17_InitFailureAborts ==
  ({"init", "check_init"} \cap errors # {}) =>
    /\ create_calls = 0
    /\ RunOver => outcome.kind = "raise"

\* C18: main returns 0 when generate_enhanced_tickets returned, 1 when it
\* raised or was interrupted, and 1 without any database operation when the
\* 'shared' directory is missing.
C18_ExitCode ==
  pc = "exited" =>
    /\ outcome.kind = "return" => exit_code = 0
    /\ outcome.kind = "raise" => exit_code = 1
    /\ outcome = NoOutcome =>
         exit_code = 1 /\ init_calls + repo_calls + close_calls = 0

C18_Witness ==
  /\ pc = "exited"
  /\ outcome.error = "interrupt"
  /\ exit_code = 1
  /\ tickets_created > 0

\* C19: create calls are issued one at a time in index order; the create of
\* index i carries title, category and priority of scenario i while i is below
\* the length of the scenario list, and a template title ending in #i+1 after.
C19_CreatesInIndexOrder ==
  [][ (pc = "loop" /\ create_calls' # create_calls) =>
        /\ create_calls = i /\ tickets_created = i
        /\ create_calls' = i + 1
        /\ IF i < Len(ENHANCED_TICKET_SCENARIOS)
           THEN /\ ticket_doc'.title = [kind |-> "scenario", text |-> i + 1, number |-> 0]
                /\ ticket_doc'.category = ENHANCED_TICKET_SCENARIOS[i + 1].category
                /\ ticket_doc'.priority = ENHANCED_TICKET_SCENARIOS[i + 1].priority
           ELSE /\ ticket_doc'.title.kind = "template"
                /\ ticket_doc'.title.number = i + 1
    ]_vars

C19_Witness ==
  /\ pc = "loop"
  /\ tickets_created = TOTAL_TICKETS
  /\ tickets[initial_count + 1].title.kind = "scenario"
  /\ tickets[initial_count + TOTAL_TICKETS].title =
       [kind |-> "template", text |-> tickets[initial_count + TOTAL_TICKETS].title.text,
        number |-> TOTAL_TICKETS]

\* C20: of two successive runs without failure from an empty collection the
\* second issues no create call, and the collection holds exactly 50 tickets
\* after the first and after the second.
C20_SecondRunCreatesNothing ==
  /\ (run = 1 /\ pc = "exited") => Len(tickets) = TOTAL_TICKETS
  /\ run >= 2 =>
       /\ create_calls = 0
       /\ Len(tickets) = TOTAL_TICKETS
       /\ pc = "exited" => Returned(TOTAL_TICKETS)

C20_Witness ==
  /\ run = 2
  /\ pc = "exited"
  /\ exit_code = 0
  /\ initial_count = TOTAL_TICKETS
  /\ repo_calls = 1
  /\ Len(tickets) = TOTAL_TICKETS

\* C21: created_at is the generation time minus a non-negative jitter, so the
\* created_at of a generated ticket is never later than now, whatever the
\* status and the drawn days_ago, hour and minutes.
C21_CreatedNotAfterNow ==
  pc = "synthed" => ticket_doc.created_at <= now

\* the midnight that starts the day of t, and the upper end of the latency
\* interval of a priority
StartOfDay(t) == t - (t % 1440)

MaxLatency(priority) == ResolutionRange(priority)[2]

\* C29 as stated: the updated_at of a Resolved or Closed ticket is never later
\* than now.
C29_UpdatedNotAfterNow ==
  (pc = "synthed" /\ ticket_doc.status \in {"Resolved", "Closed"}) =>
    ticket_doc.updated_at <= now

\* C29 amended: a Resolved or Closed ticket is created before the midnight
\* that starts the day of now, and its updated_at is earlier than that
\* midnight plus the upper end of the latency interval of its priority.
C29_UpdatedWithinLatencyOfToday ==
  (pc = "synthed" /\ ticket_doc.status \in {"Resolved", "Closed"}) =>
    /\ ticket_doc.created_at < StartOfDay(now)
    /\ ticket_doc.updated_at < StartOfDay(now) + MaxLatency(ticket_doc.priority)

C29_Witness ==
  /\ pc = "synthed"
  /\ ticket_doc.status = "Resolved" /\ ticket_doc.priority = "Low"
  /\ ticket_doc.created_at < now
  /\ ticket_doc.updated_at > now

\* the error tags of check_existing_tickets_count
CheckTags == {"check", "check_init", "check_count"}

\* C26: an exception of init_database_connections or of the count query inside
\* check_existing_tickets_count is swallowed and the count is reported as 0;
\* the run goes on to the guard and the second initialization and, when nothing
\* else fails, creates TOTAL_TICKETS tickets as for an empty collection,
\* whatever the collection holds.
C26_CheckFailureCountsAsEmpty ==
  /\ []( "check" \in errors =>
           /\ existing_count = 0
           /\ pc \in {"guard", "build", "loop", "finally", "done", "exited"}
           /\ (pc = "guard" => outcome = NoOutcome)
           /\ (pc \in {"build", "loop"} => init_calls = 2)
           /\ ((pc = "done" /\ errors \subseteq CheckTags) =>
                 /\ Returned(TOTAL_TICKETS)
                 /\ create_calls = TOTAL_TICKETS
                 /\ Len(tickets) = initial_count + TOTAL_TICKETS) )
  /\ [][ (pc = "check" /\ "check" \in errors') =>
           /\ existing_count' = 0
           /\ pc' = "guard"
           /\ outcome' = NoOutcome
           /\ tickets' = tickets ]_vars

C26_Witness ==
  /\ pc = "done"
  /\ errors = {"check", "check_count"}
  /\ initial_count = GUARD_THRESHOLD
  /\ init_calls = 2
  /\ Returned(TOTAL_TICKETS)
  /\ Len(tickets) = GUARD_THRESHOLD + TOTAL_TICKETS

RECURSIVE SumWorkload(_, _)
SumWorkload(wl, a) == IF a > Len(AGENTS) THEN 0 ELSE wl[a] + SumWorkload(wl, a + 1)

\* the documents generated by this run: those stored and, after a create that
\* did not store its document, that document
Generated ==
  IF create_calls > Len(Created) THEN Append(Created, ticket_doc) ELSE Created

NonOpen(docs) == Len(docs) - Tally(docs, "status", "Open")

\* C22: generating a ticket whose status is not Open adds exactly 1 to the
\* workload of the agent named in its assigned_to and leaves every other
\* workload unchanged; generating an Open ticket changes no workload; so the
\* sum of the workloads equals the number of non-Open tickets generated so far.
C22_OneIncrementPerAssignedTicket ==
  /\ []( pc \in {"loop", "finally", "done"} =>
           SumWorkload(workload, 1) = NonOpen(Generated) )
  /\ [][ (create_calls' = create_calls + 1) =>
           IF ticket_doc'.status # "Open"
           THEN /\ ticket_doc'.assigned_to \in AgentNames
                /\ workload' = [workload EXCEPT ![AgentNamed(ticket_doc'.assigned_to)] = @ + 1]
           ELSE workload' = workload ]_vars

C22_Witness ==
  /\ pc = "loop"
  /\ tickets_created = TOTAL_TICKETS
  /\ SumWorkload(workload, 1) = TOTAL_TICKETS - Count(Expand(STATUS_DISTRIBUTION), "Open")
  /\ \E n \in DOMAIN Created : Created[n].status = "Open"
  /\ ticket_doc.status # "Open"
  /\ workload[AgentNamed(ticket_doc.assigned_to)] > 1

(* ------------------- a run whose shuffles saturate agents --------------- *)
\* shuffle outcomes under which one run fills Sarah Wilson, Mike Chen and Emma
\* Rodriguez: the statuses in stride 9 and the categories rotated so that the
\* three Access entries fall on the template tickets 48, 49 and 50
SaturatingChoices == {<<0, 9>>, <<48, 1>>}

BuildListsSaturating == BuildWith(SaturatingChoices)

NextSaturating ==
  \/ MainRun \/ MainNoShared \/ MainExit
  \/ CheckExisting \/ CheckExistingError
  \/ GuardSkip \/ InitConnections \/ InitConnectionsError
  \/ BuildListsSaturating
  \/ CreateTicket \/ CreateTicketError \/ ReturnCreated
  \/ CloseConnections \/ CloseConnectionsError
  \/ InterruptCheck \/ InterruptInit \/ InterruptCreate \/ InterruptClose

SpecSaturating == Init /\ [][NextSaturating]_vars

\* C27: in a run that starts with all workloads 0 no workload ever exceeds the
\* saturation threshold 8, fallback assignments included.
C27_WorkloadNeverAboveSaturation ==
  \A a \in DOMAIN AGENTS : workload[a] <= SATURATION

\* a complete run in which three agents are full and a stored ticket went to
\* an agent through the fallback
C27_Witness ==
  /\ pc = "done" /\ errors = {}
  /\ Cardinality({a \in DOMAIN AGENTS : workload[a] = SATURATION}) = 3
  /\ \E n \in DOMAIN Created :
       /\ "assigned_to" \in DOMAIN Created[n]
       /\ Created[n].category \notin AGENTS[AgentNamed(Created[n].assigned_to)].skills

\* C28 as stated: every ticket that carries assigned_to is assigned to an
\* agent whose skills contain the category of the ticket.
C28_AssigneeHasSkill ==
  (create_calls > 0 /\ "assigned_to" \in DOMAIN ticket_doc) =>
    ticket_doc.category \in AGENTS[AgentNamed(ticket_doc.assigned_to)].skills

\* C28 amended: the agent of a ticket that carries assigned_to has the
\* category among its skills and had a workload below 8, unless every agent
\* with that skill was at 8 when the ticket was generated; the ticket then
\* goes to the first agent of minimal workload, whatever its skills.
C28_AssigneeHasSkillUnlessAllFull ==
  [][ (create_calls' = create_calls + 1 /\ "assigned_to" \in DOMAIN ticket_doc') =>
        LET a == AgentNamed(ticket_doc'.assigned_to)
            c == ticket_doc'.category
        IN  \/ /\ c \in AGENTS[a].skills
               /\ workload[a] < SATURATION
            \/ /\ \A b \in SkilledAgents(c) : workload[b] >= SATURATION
               /\ a = FirstOf(LeastLoaded(workload))
    ]_vars

C28_Witness ==
  /\ pc = "loop"
  /\ tickets_created = TOTAL_TICKETS
  /\ ticket_doc.category = "Access"
  /\ ticket_doc.assigned_to = "Alex Thompson"
  /\ workload = <<8, 8, 8, 3, 4, 1>>

AllSamplesPresent(kb) ==
  \A n \in DOMAIN SAMPLE_ARTICLES : Present(kb, SAMPLE_ARTICLES[n])

\* C23 as stated: after a run of populate_knowledge_base that completes without
\* error, whatever the collection held before, every title of SAMPLE_ARTICLES
\* is in the collection.
C23_EveryTitlePresent ==
  (pc = "kb_done" /\ outcome.kind = "return") => AllSamplesPresent(knowledge_base)

\* C23 amended: after a run that completes without error, every title of
\* SAMPLE_ARTICLES is in the collection when the run found fewer articles than
\* SAMPLE_ARTICLES has; when it found that many or more, it returned without
\* a find_one or a create and the collection is as it was.
C23_EveryTitlePresentUnlessSkipped ==
  (pc = "kb_done" /\ outcome.kind = "return") =>
    IF initial_count < Len(SAMPLE_ARTICLES)
    THEN AllSamplesPresent(knowledge_base)
    ELSE /\ find_calls = 0 /\ create_calls = 0
         /\ Len(knowledge_base) = initial_count

\* a run that found 11 unrelated articles and added the 12 sample articles
C23_Witness ==
  /\ pc = "kb_done" /\ outcome.kind = "return"
  /\ initial_count = Len(SAMPLE_ARTICLES) - 1
  /\ create_calls = Len(SAMPLE_ARTICLES)
  /\ Len(knowledge_base) = initial_count + Len(SAMPLE_ARTICLES)
  /\ AllSamplesPresent(knowledge_base)

(* ------------- successive runs of populate_knowledge_base -------------- *)
\* the script is started again after a run is over
KbNextRun ==
  /\ pc = "kb_done"
  /\ run < MaxRuns
  /\ run' = run + 1
  /\ pc' = "kb_init"
  /\ initial_count' = Len(knowledge_base)
  /\ existing_count' = 0
  /\ i' = 0
  /\ create_calls' = 0
  /\ close_calls' = 0
  /\ outcome' = NoOutcome
  /\ errors' = {}
  /\ find_calls' = 0
  /\ init_calls' = 0
  /\ repo_calls' = 0
  /\ UNCHANGED << tickets, knowledge_base, status_list, priority_list, category_list,
                  tickets_created, workload, ticket_doc, now, seed, exit_code >>

\* runs in which no operation fails, from any initial content
NextKBRuns ==
  \/ KbInit \/ KbCount \/ KbGuardSkip \/ KbAddArticles
  \/ KbSkipExisting \/ KbCreateArticle \/ KbSummary \/ KbClose
  \/ KbNextRun

SpecKBRuns == InitKB /\ [][NextKBRuns]_vars

\* a first run from an empty collection in which a create may raise, followed
\* by runs in which no operation fails
InitKBEmpty == InitKB /\ knowledge_base = <<>>

KbCreateErrorFirst == run = 1 /\ KbCreateError

NextKBRecovery ==
  \/ KbInit \/ KbCount \/ KbGuardSkip \/ KbAddArticles
  \/ KbSkipExisting \/ KbCreateArticle \/ KbCreateErrorFirst \/ KbSummary \/ KbClose
  \/ KbNextRun

SpecKBRecovery == InitKBEmpty /\ [][NextKBRecovery]_vars

\* C24: of two successive runs of populate_knowledge_base without failure,
\* from any initial content, the second issues no create call and leaves the
\* collection as the first run left it.
C24_SecondPopulateCreatesNothing ==
  /\ [](run >= 2 =>
          /\ create_calls = 0
          /\ Len(knowledge_base) = initial_count
          /\ (pc = "kb_done" => outcome.kind = "return"))
  /\ [][run >= 2 => knowledge_base' = knowledge_base]_vars

\* the second run found the collection the first run filled and returned at
\* the guard
C24_Witness ==
  /\ run = 2
  /\ pc = "kb_done"
  /\ find_calls = 0
  /\ initial_count = Len(SAMPLE_ARTICLES)
  /\ AllSamplesPresent(knowledge_base)
  /\ UniqueTitles(knowledge_base)

\* C30: from an empty collection, when a run fails at the create of article
\* j+1 after storing j articles, a following run without failure issues
\* exactly 12 - j create calls and the collection then holds each of the 12
\* sample titles exactly once.
C30_RecoveryCreatesTheRest ==
  /\ (run = 1 /\ "create" \in errors) =>
       /\ Len(knowledge_base) = i
       /\ create_calls = i + 1
       /\ outcome.kind = "raise"
  /\ run >= 2 =>
       /\ initial_count <= Len(SAMPLE_ARTICLES)
       /\ pc = "kb_done" =>
            /\ outcome.kind = "return"
            /\ create_calls = Len(SAMPLE_ARTICLES) - initial_count
            /\ Len(knowledge_base) = Len(SAMPLE_ARTICLES)
            /\ \A n \in DOMAIN SAMPLE_ARTICLES :
                 Tally(knowledge_base, "title", SAMPLE_ARTICLES[n]) = 1

\* the second run is over after the first one failed at the create of article 6
C30_Witness ==
  /\ run = 2
  /\ pc = "kb_done"
  /\ initial_count = 5
  /\ find_calls = Len(SAMPLE_ARTICLES)
  /\ create_calls = 7
  /\ Len(knowledge_base) = Len(SAMPLE_ARTICLES)

(* ---------- two runs of populate_knowledge_base at the same time -------- *)
\* Two processes run the script against one collection. pc, i, existing_count,
\* find_calls and create_calls hold one value per process here; a step is one
\* awaited repository call, so the find_one and the create of one article are
\* two steps with the other process free to act in between.
Procs == {1, 2}

InitKBConcurrent ==
  /\ pc = [p \in Procs |-> "kb_init"]
  /\ knowledge_base = <<>>
  /\ initial_count = 0
  /\ existing_count = [p \in Procs |-> 0]
  /\ i = [p \in Procs |-> 0]
  /\ find_calls = [p \in Procs |-> 0]
  /\ create_calls = [p \in Procs |-> 0]
  /\ tickets = <<>>
  /\ status_list = <<>> /\ priority_list = <<>> /\ category_list = <<>>
  /\ tickets_created = 0
  /\ workload = ZeroWorkload
  /\ ticket_doc = NoDoc
  /\ close_calls = 0
  /\ outcome = NoOutcome
  /\ now \in NowValues
  /\ seed = 0
  /\ errors = {}
  /\ run = 1
  /\ exit_code = -1
  /\ init_calls = 0
  /\ repo_calls = 0

\* what no step of either process touches
ConcurrentFrame ==
  UNCHANGED << tickets, initial_count, status_list, priority_list, category_list,
               tickets_created, workload, ticket_doc, now, seed, run, exit_code,
               outcome, errors >>

\* the number of documents whose title an earlier document has
Duplicates(kb) == Len(kb) - Cardinality({kb[n].title : n \in DOMAIN kb})

\* the schedules explored: a process whose create would store a duplicate
\* once MaxDuplicates duplicates are stored is not run again
Scheduled(p) ==
  \/ ~Present(knowledge_base, SAMPLE_ARTICLES[i[p] + 1])
  \/ Duplicates(knowledge_base) < MaxDuplicates

\* init_database_connections returns in process p
ProcInit(p) ==
  /\ pc[p] = "kb_init"
  /\ pc' = [pc EXCEPT ![p] = "kb_count"]
  /\ init_calls' = init_calls + 1
  /\ ConcurrentFrame
  /\ UNCHANGED << knowledge_base, existing_count, i, find_calls, create_calls,
                  repo_calls, close_calls >>

\* existing_count = await kb_repo.count({}) in process p
ProcCount(p) ==
  /\ pc[p] = "kb_count"
  /\ existing_count' = [existing_count EXCEPT ![p] = Len(knowledge_base)]
  /\ pc' = [pc EXCEPT ![p] = "kb_guard"]
  /\ repo_calls' = repo_calls + 1
  /\ ConcurrentFrame
  /\ UNCHANGED << knowledge_base, i, find_calls, create_calls, init_calls, close_calls >>

\* the guard of process p: return, or start the loop
ProcGuard(p) ==
  /\ pc[p] = "kb_guard"
  /\ pc' = [pc EXCEPT ![p] = IF KbSufficient(existing_count[p])
                             THEN "kb_finally" ELSE "kb_loop"]
  /\ ConcurrentFrame
  /\ UNCHANGED << knowledge_base, existing_count, i, find_calls, create_calls,
                  init_calls, repo_calls, close_calls >>

\* existing = await kb_repo.find_one({"title": ...}) in process p: continue
\* when a document is found, go on to create when none is
ProcFindOne(p) ==
  /\ pc[p] = "kb_loop"
  /\ i[p] < Len(SAMPLE_ARTICLES)
  /\ find_calls' = [find_calls EXCEPT ![p] = @ + 1]
  /\ repo_calls' = repo_calls + 1
  /\ IF Present(knowledge_base, SAMPLE_ARTICLES[i[p] + 1])
     THEN /\ i' = [i EXCEPT ![p] = @ + 1]
          /\ pc' = pc
     ELSE /\ i' = i
          /\ pc' = [pc EXCEPT ![p] = "kb_create"]
  /\ ConcurrentFrame
  /\ UNCHANGED << knowledge_base, existing_count, create_calls, init_calls, close_calls >>

\* article_id = await kb_repo.create(article_doc) in process p
ProcCreate(p) ==
  /\ pc[p] = "kb_create"
  /\ Scheduled(p)
  /\ knowledge_base' = Append(knowledge_base, ArticleDoc(SAMPLE_ARTICLES[i[p] + 1]))
  /\ create_calls' = [create_calls EXCEPT ![p] = @ + 1]
  /\ repo_calls' = repo_calls + 1
  /\ i' = [i EXCEPT ![p] = @ + 1]
  /\ pc' = [pc EXCEPT ![p] = "kb_loop"]
  /\ ConcurrentFrame
  /\ UNCHANGED << existing_count, find_calls, init_calls, close_calls >>

\* after the loop of process p: the final count and find_many
ProcSummary(p) ==
  /\ pc[p] = "kb_loop"
  /\ i[p] >= Len(SAMPLE_ARTICLES)
  /\ repo_calls' = repo_calls + 2
  /\ pc' = [pc EXCEPT ![p] = "kb_finally"]
  /\ ConcurrentFrame
  /\ UNCHANGED << knowledge_base, existing_count, i, find_calls, create_calls,
                  init_calls, close_calls >>

\* finally: close_connections in process p
ProcClose(p) ==
  /\ pc[p] = "kb_finally"
  /\ close_calls' = close_calls + 1
  /\ pc' = [pc EXCEPT ![p] = "kb_done"]
  /\ ConcurrentFrame
  /\ UNCHANGED << knowledge_base, existing_count, i, find_calls, create_calls,
                  init_calls, repo_calls >>

NextKBConcurrent ==
  \E p \in Procs :
    \/ ProcInit(p) \/ ProcCount(p) \/ ProcGuard(p)
    \/ ProcFindOne(p) \/ ProcCreate(p)
    \/ ProcSummary(p) \/ ProcClose(p)

SpecKBConcurrent == InitKBConcurrent /\ [][NextKBConcurrent]_vars

\* C25: when two runs of populate_knowledge_base interleave their count,
\* find_one and create calls on a collection that starts empty, no sample
\* title is stored more than once.
C25_NoTitleStoredTwice == UniqueTitles(knowledge_base)

====
